---- MODULE Spec2Model ----
(***************************************************************************)
(* State-machine model of the frame-alignment engine of AmyPET             *)
(* (src/amypet/align.py): align_frames, align_suvr, align_break.           *)
(*                                                                         *)
(* Python lists are TLA+ sequences, so position k of a Python list         *)
(* (k = 0..n-1) is position k+1 here; frame indices stored in lists        *)
(* (mashed_frame_idx) are shifted the same way (frame i is i+1).           *)
(* The registration and resampling tools (SPM, DIPY), the NIfTI codec and  *)
(* the file system are external: their results are drawn                   *)
(* nondeterministically, and every invocation is recorded in `used`.       *)
(***************************************************************************)
EXTENDS Integers, Sequences, FiniteSets, TLC

VARIABLES
    pc,          \* position in the running function
    exc,         \* exception raised ("none" while running normally)
    used,        \* set of external routines invoked: registration, resampling,
                 \* directory creation ("create_dir") and file writes
    fniis,       \* align_frames: list of frame files (file ids)
    times,       \* align_frames: the `times` argument [kind, val]
    Cnt,         \* Cnt['align'] configuration record
    reg_tool,    \* align_frames: the reg_tool argument
    save4d,      \* align_frames: the save4d argument
    reg_metric,  \* align_frames: local reg_metric (after the DIPY switch)
    mfrms,       \* align_frames: list of groups of frame indices
    mfrms_out,   \* align_frames: list of mashed files, one per group
    R,           \* align_frames: rss metric per group
    D,           \* align_frames: average-distance metric per group
    S,           \* align_frames: affine file per group
    faligned,    \* align_frames: aligned file per position
    fi,          \* align_frames: counter for base frames (0-based as in code)
    mi,          \* align_frames: number of groups already registered
    outdct,      \* align_frames: the returned dictionary
    caller,      \* the function that called align_frames ("top": the user)
    stat_tdata,  \* align_suvr: the static series [frms, suvr, timings]
    suvr_tool,   \* align_suvr: the reg_tool argument
    suvr_metric, \* align_suvr: local reg_metric (after the DIPY switch)
    Rs,          \* align_suvr: rss metric, reference frame x floating frame
    Ds,          \* align_suvr: average-distance metric, same indexing
    Ss,          \* align_suvr: affine files, same indexing
    ci,          \* align_suvr: number of frame combinations registered
    rfrm,        \* align_suvr: the reference SUVr frame (1-based)
    suvr_fpeti,  \* align_suvr: outdct['suvr']['fpeti']
    S_w,         \* align_suvr: affine file per frame of the series
    R_w,         \* align_suvr: rss metric per frame of the series
    D_w,         \* align_suvr: average-distance metric per frame
    fnii_aligned_w, \* align_suvr: aligned file per frame of the series
    wfi,         \* align_suvr: loop index fi of the final loop (0-based)
    fwi,         \* align_suvr: counter of wide frames (0-based)
    fsi,         \* align_suvr: counter of SUVr frames (0-based)
    aligned_suvr, \* align_suvr: the returned dictionary
    niidat,      \* align_break: the input series (descr, tracer, break data)
    brk_tool,    \* align_break: its reg_tool argument
    nanfiles,    \* sources of the image files that hold a NaN voxel
    decay_corr,  \* align_break: the local decay_corr
    dcycrr,      \* align_break: the decay correction factor
    consulted,   \* align_break: the inputs read for the decay correction
    fall,        \* align_break: the list of all aligned frame files
    niia,        \* align_break: the frames of the assembled 4D image
    brk_out,     \* align_break: what is returned
    entry,       \* the function the user has called
    use_stored,  \* the use_stored argument of the call
    store,       \* the stored result files (.npy) of align_suvr and align_break
    ret,         \* the dictionary returned to the user
    prev,        \* the dictionary returned by the user's previous call
    ncall,       \* the number of calls the user has made
    impet,       \* extract_vois: the PET image (its ndim and its frames)
    atlas,       \* extract_vois: the label of every voxel
    voi_dct,     \* extract_vois: the VOIs, each a name and a list of labels
    atlas_mask,  \* extract_vois: the optional mask of the atlas
    lbls,        \* extract_vois: the labels without NaN
    amsk,        \* extract_vois: the mask applied to every VOI mask
    vk,          \* extract_vois: the number of VOIs processed
    out          \* extract_vois: the output dictionary, in insertion order

afvars == <<fniis, times, reg_tool, save4d, reg_metric,
            mfrms, mfrms_out, R, D, S, faligned, fi, mi, outdct>>

suvars == <<stat_tdata, suvr_tool, suvr_metric, Rs, Ds, Ss, ci, rfrm,
            suvr_fpeti, S_w, R_w, D_w, fnii_aligned_w, wfi, fwi, fsi,
            aligned_suvr>>

brvars == <<niidat, brk_tool, nanfiles, decay_corr, dcycrr, consulted, fall,
            niia, brk_out>>

\* the variables of the functions that call align_frames
topvars == <<entry, use_stored, store, ret, prev, ncall>>

evvars == <<impet, atlas, voi_dct, atlas_mask, lbls, amsk, vk, out>>

callvars == <<suvars, brvars, topvars, evvars>>

vars == <<pc, exc, used, Cnt, caller, afvars, callvars>>

----------------------------------------------------------------------------
(* Bounds of the model *)

\* largest number of frames of a call
MaxFrames == 3
\* frame start/stop times are drawn from 0..TMax
TMax == 4
\* frame_min_dur is drawn from 1..MaxMinDur
MaxMinDur == 3
\* frame durations of a laid-out series are drawn from 1..MaxDur
MaxDur == 2
\* largest number of frames of a static series
MaxStatic == 4
\* largest number of SUVr frames of a static series
MaxSuvr == 2
\* largest number of series described in niidat
MaxSeries == 3
\* series start times are drawn from 0..MaxStart
MaxStart == 2
\* largest number of coffee-break frames
MaxBreak == 2
\* largest number of aligned static frames given to align_break
MaxWide == 2

\* motion metrics returned by a registration, and thresholds configured:
\* with thresholds 0 and 1 the metrics 0 and 1 fall below, on and above
MetricValues == {0, 1}
\* numbers of SUVr frames of the series whose reference frame is sought
SuvrCounts == {1, 2, 3}
Thresholds == {0, 1}

----------------------------------------------------------------------------
(* Values *)

\* a list of metrics that also admits a third name
reg_metric_list_wide == {"rss", "adst", "other"}

\* list of registration/motion metrics for alignment
reg_metric_list == {"rss", "adst"}

\* Python's None in a list of affine files / of aligned files
NoAff == [kind |-> "None", a |-> 0, b |-> 0]
NoFile == [src |-> 0, op |-> "None", aff |-> NoAff]
NoOut == [set |-> FALSE, mashed_frame_idx |-> <<>>, affines |-> <<>>,
          metric |-> <<>>, metric2 |-> <<>>, faligned |-> <<>>,
          has4d |-> FALSE, im4d |-> <<>>]

\* align_suvr has not returned
NoSuvr == [set |-> FALSE,
           suvr |-> [fpeti |-> <<>>, Metric |-> <<>>, faff |-> <<>>],
           wide |-> [fpeti |-> <<>>, Metric |-> <<>>, faff |-> <<>>]]

RECURSIVE SeqSum(_)
SeqSum(s) == IF s = <<>> THEN 0 ELSE Head(s) + SeqSum(Tail(s))

RECURSIVE SortedSeq(_)
\* the elements of a finite set of integers in increasing order
SortedSeq(A) ==
    IF A = {} THEN <<>>
    ELSE LET m == CHOOSE x \in A : \A y \in A : x <= y
         IN <<m>> \o SortedSeq(A \ {m})

RECURSIVE Flatten(_)
Flatten(ss) == IF ss = <<>> THEN <<>> ELSE Head(ss) \o Flatten(Tail(ss))

----------------------------------------------------------------------------
(* align_frames: frame times (lines 125-140) *)

\* isinstance(times, list) or isinstance(times, np.ndarray)
TimesIsList(t) == t.kind \in {"list2d", "list1d"}

\* np.array(times).ndim: a list of [start, stop] pairs is 2-D, a list of
\* numbers is 1-D
Ndim(t) == IF t.kind = "list2d" THEN 2 ELSE 1

\* dur = np.array([t[1]-t[0] for t in ts])
DurOf(ts) == [k \in 1..Len(ts) |-> ts[k][2] - ts[k][1]]

\* outcome of the checks of the frame times: "ok" or the ValueError raised
TimesCheck(t, nfrm) ==
    IF TimesIsList(t)
    THEN IF Ndim(t) = 2
         THEN IF Len(DurOf(t.val)) # nfrm
              THEN "ValueError: number of frames"
              ELSE "ok"
         ELSE "ValueError: unrecognised dimension for frame times"
    ELSE "ValueError: unrecognised frame times"

----------------------------------------------------------------------------
(* align_frames: mashing of short frames (lines 159-200) *)

\* frms_l = dur<frm_lsize, as the set of (1-based) frame indices
ShortFrames(ts, L) == {k \in 1..Len(ts) : DurOf(ts)[k] < L}

\* (~frms_l)
LongFrames(ts, L) == {k \in 1..Len(ts) : ~(DurOf(ts)[k] < L)}

\* nset = int(np.floor(np.sum(dur[frms_l])/frm_lsize))
NSet(ts, L) ==
    LET sh == SortedSeq(ShortFrames(ts, L))
    IN SeqSum([j \in 1..Len(sh) |-> DurOf(ts)[sh[j]]]) \div L

\* ifrm of iteration i (i = 0..nset-1): frames whose stop time lies in
\* (i*frm_lsize, (i+1)*frm_lsize], in index order
Window(ts, L, i) ==
    SortedSeq({k \in 1..Len(ts) : ts[k][2] <= (i+1)*L /\ ts[k][2] > i*L})

\* mfrms after the loop over range(nset)
MashedGroups(ts, L) == [i \in 1..NSet(ts, L) |-> Window(ts, L, i-1)]

\* the consistency checks left out
CountMismatch_off(nmfrm_chck, expected) == FALSE

\* the two consistency checks: the counted frames differ from the expected
CountMismatch(nmfrm_chck, expected) == nmfrm_chck # expected

\* mfrms with the normal-length frames appended, one group each
AllGroups(ts, L) ==
    LET lg == SortedSeq(LongFrames(ts, L))
    IN MashedGroups(ts, L) \o [j \in 1..Len(lg) |-> <<lg[j]>>]

\* outcome of the mashing checks: "ok" or the ValueError raised
MashCheck(ts, L, nfrm) ==
    LET nmfrm == Cardinality(ShortFrames(ts, L))
        chck1 == Len(Flatten(MashedGroups(ts, L)))
        chck2 == chck1 + Cardinality(LongFrames(ts, L))
    IN IF CountMismatch(chck1, nmfrm)
       THEN "ValueError: Mashing frames inconsistent"
       ELSE IF CountMismatch(chck2, nfrm)
            THEN "ValueError: Mashing frames inconsistency"
            ELSE "ok"

\* mashed file of a group: named after the group's size and first frame
MashedFile(files, mgrp) == [n |-> Len(mgrp), first |-> files[mgrp[1]]]

----------------------------------------------------------------------------
(* align_frames: registration and resampling (lines 258-338) *)

\* affine file written by the registration of the group at position g
AffOf(tool, g) == [kind |-> "mashed", a |-> g, b |-> IF tool = "spm" THEN 1 ELSE 2]

\* the test of line 307 with >= for >
MotionAbove_ge(Rg, Dg, thr, metric) ==
    (Rg >= thr /\ metric = "rss") \/ (Dg >= thr /\ metric = "adst")

\* the test of line 307
MotionAbove(Rg, Dg, thr, metric) ==
    (Rg > thr /\ metric = "rss") \/ (Dg > thr /\ metric = "adst")

\* the aligned file of frame file f of a group with metrics Rg, Dg and
\* affine Sg (lines 307-336)
AlignedFile(f, Rg, Dg, Sg, thr, metric, tool) ==
    IF MotionAbove(Rg, Dg, thr, metric)
    THEN IF tool = "spm" THEN [src |-> f, op |-> "resample_spm", aff |-> Sg]
         ELSE IF tool = "dipy" THEN [src |-> f, op |-> "resample_dipy", aff |-> Sg]
         ELSE NoFile
    ELSE [src |-> f, op |-> "copy", aff |-> NoAff]

\* routines invoked to align the frames of one group
ResampleUsed(Rg, Dg, thr, metric, tool, mgrp) ==
    IF mgrp = <<>> THEN {}
    ELSE IF MotionAbove(Rg, Dg, thr, metric)
    THEN IF tool = "spm" THEN {"resample_spm"}
         ELSE IF tool = "dipy" THEN {"resample_dipy"} ELSE {}
    ELSE {"copyfile"}

\* position in faligned written for the j-th frame (j = 1..) of the group
\* being aligned, `cnt` being the counter fi on entry to the group
AlignedSlot(cnt, j, frame) == cnt + j

----------------------------------------------------------------------------
(* align_frames: the steps of a call *)

\* an exception propagates to the user: no caller catches it
Raise(e) == pc' = "raised" /\ exc' = e

\* lines 104-122: configuration, metric check, DIPY switch of the metric
AF_Config ==
    /\ pc = "af_config"
    /\ IF Cnt.reg_metric \notin reg_metric_list
       THEN /\ Raise("ValueError: Unrecognised registration metric.")
            /\ UNCHANGED reg_metric
       ELSE /\ reg_metric' = IF reg_tool = "dipy" /\ Cnt.reg_metric = "rss"
                             THEN "adst" ELSE Cnt.reg_metric
            /\ pc' = "af_times"
            /\ UNCHANGED exc
    /\ UNCHANGED <<callvars, used, Cnt, caller, fniis, times, reg_tool, save4d,
                   mfrms, mfrms_out, R, D, S, faligned, fi, mi, outdct>>

\* lines 125-140: the frame times
AF_Times ==
    /\ pc = "af_times"
    /\ IF TimesCheck(times, Len(fniis)) = "ok"
       THEN pc' = "af_mash" /\ UNCHANGED exc
       ELSE Raise(TimesCheck(times, Len(fniis)))
    /\ UNCHANGED <<callvars, used, Cnt, caller, afvars>>

\* lines 143-200: output folders, mashing and its consistency checks
AF_Mash ==
    /\ pc = "af_mash"
    /\ LET ts == times.val
           L == Cnt.frame_min_dur
       IN IF MashCheck(ts, L, Len(fniis)) = "ok"
          THEN /\ mfrms' = AllGroups(ts, L)
               /\ pc' = "af_mashfiles"
               /\ UNCHANGED exc
          ELSE /\ Raise(MashCheck(ts, L, Len(fniis)))
               /\ UNCHANGED mfrms
    /\ used' = used \cup {"create_dir"}
    /\ UNCHANGED <<callvars, Cnt, caller, fniis, times, reg_tool, save4d,
                   reg_metric, mfrms_out, R, D, S, faligned, fi, mi, outdct>>

\* lines 204-255: the mashed files are written (mgrp[0] of an empty group
\* raises IndexError), the result arrays are initialised
AF_MashFiles ==
    /\ pc = "af_mashfiles"
    /\ IF \E g \in 1..Len(mfrms) : mfrms[g] = <<>>
       THEN /\ Raise("IndexError: list index out of range")
            /\ UNCHANGED <<mfrms_out, R, D, S, faligned, fi, mi>>
       ELSE /\ mfrms_out' = [g \in 1..Len(mfrms) |-> MashedFile(fniis, mfrms[g])]
            /\ R' = [g \in 1..Len(mfrms) |-> 0]
            /\ D' = [g \in 1..Len(mfrms) |-> 0]
            /\ S' = [g \in 1..Len(mfrms) |-> NoAff]
            /\ faligned' = [k \in 1..Len(fniis) |-> NoFile]
            /\ fi' = 0
            /\ mi' = 0
            /\ pc' = "af_register"
            /\ UNCHANGED exc
    /\ used' = used \cup (IF mfrms # <<>> /\ mfrms[1] # <<>>
                          THEN {"array2nii"} ELSE {})
    /\ UNCHANGED <<callvars, Cnt, caller, fniis, times, reg_tool, save4d,
                   reg_metric, mfrms, outdct>>

\* faligned after the frames of group g have been aligned (lines 302-338)
AlignGroup(g, Rg, Dg, Sg) ==
    LET mgrp == mfrms[g]
        hit(p) == {j \in 1..Len(mgrp) : AlignedSlot(fi, j, mgrp[j]) = p}
        last(p) == CHOOSE j \in hit(p) : \A j2 \in hit(p) : j2 <= j
    IN [p \in 1..Len(faligned) |->
          IF hit(p) = {} THEN faligned[p]
          ELSE AlignedFile(fniis[mgrp[last(p)]], Rg, Dg, Sg,
                           Cnt.reg_thrshld, reg_metric, reg_tool)]

\* lines 258-338: one iteration of the loop over the mashed files: the
\* group is registered to the reference, then its frames are aligned
AF_Register ==
    /\ pc = "af_register"
    /\ mi < Len(mfrms_out)
    /\ LET g == mi + 1
       IN \E r \in MetricValues, d \in MetricValues :
            LET Rg == IF reg_tool = "spm" THEN r ELSE R[g]
                Dg == IF reg_tool \in {"spm", "dipy"} THEN d ELSE D[g]
                Sg == IF reg_tool \in {"spm", "dipy"} THEN AffOf(reg_tool, g) ELSE S[g]
            IN /\ (reg_tool # "spm" => r = 0)
               /\ (reg_tool \notin {"spm", "dipy"} => d = 0)
               /\ R' = [R EXCEPT ![g] = Rg]
               /\ D' = [D EXCEPT ![g] = Dg]
               /\ S' = [S EXCEPT ![g] = Sg]
               /\ faligned' = AlignGroup(g, Rg, Dg, Sg)
               /\ used' = used
                    \cup (IF reg_tool = "spm" THEN {"coreg_spm"}
                          ELSE IF reg_tool = "dipy" THEN {"affine_dipy"} ELSE {})
                    \cup ResampleUsed(Rg, Dg, Cnt.reg_thrshld, reg_metric,
                                      reg_tool, mfrms[g])
               /\ fi' = fi + Len(mfrms[g])
               /\ mi' = mi + 1
    /\ UNCHANGED <<callvars, pc, exc, Cnt, caller, fniis, times, reg_tool, save4d,
                   reg_metric, mfrms, mfrms_out, outdct>>

\* save4dnii (lines 41-71): frame i of the 4D image is read from lfrm[i]
save4dnii(lfrm) == [i \in 1..Len(lfrm) |-> lfrm[i]]

\* where the caller of align_frames continues
ReturnTo(c) == IF c = "align_suvr" THEN "suvr_wide"
               ELSE IF c = "align_break" THEN "brk_assemble" ELSE "done"

\* lines 341-359: the output dictionary, the 4D image when requested
AF_Return ==
    /\ pc = "af_register"
    /\ mi = Len(mfrms_out)
    /\ outdct' = [set |-> TRUE, mashed_frame_idx |-> mfrms, affines |-> S,
                  metric |-> R, metric2 |-> D, faligned |-> faligned,
                  has4d |-> save4d,
                  im4d |-> IF save4d THEN save4dnii(faligned) ELSE <<>>]
    /\ pc' = ReturnTo(caller)
    /\ used' = used \cup (IF save4d THEN {"array2nii"} ELSE {})
    /\ UNCHANGED <<callvars, exc, Cnt, caller, fniis, times, reg_tool, save4d,
                   reg_metric, mfrms, mfrms_out, R, D, S, faligned, fi, mi>>

----------------------------------------------------------------------------
(* Inputs *)

\* [start, stop] pairs on the time grid
TimePairs == {p \in (0..TMax) \X (0..TMax) : p[1] < p[2]}

\* lists of n pairs
PairLists(n) == [1..n -> TimePairs]

\* align_frames has not run: its locals are unset
AF_Locals0 ==
    /\ mfrms = <<>>
    /\ mfrms_out = <<>>
    /\ R = <<>>
    /\ D = <<>>
    /\ S = <<>>
    /\ faligned = <<>>
    /\ fi = 0
    /\ mi = 0
    /\ outdct = NoOut

\* the locals of align_suvr before they are assigned
Suvr_Locals0 ==
    /\ Rs = <<>>
    /\ Ds = <<>>
    /\ Ss = <<>>
    /\ ci = 0
    /\ rfrm = 0
    /\ suvr_fpeti = <<>>
    /\ S_w = <<>>
    /\ R_w = <<>>
    /\ D_w = <<>>
    /\ fnii_aligned_w = <<>>
    /\ wfi = 0
    /\ fwi = 0
    /\ fsi = 0
    /\ aligned_suvr = NoSuvr

\* align_suvr is not part of the run
Suvr_Idle ==
    /\ stat_tdata = [frms |-> <<>>, suvr |-> <<>>, timings |-> <<>>]
    /\ suvr_tool = "spm"
    /\ suvr_metric = "rss"
    /\ Suvr_Locals0

\* decay correction factors: One, or exp(lmbd*td) of an isotope and td > 0
One == [istp |-> "none", td |-> 0]

\* the data of a series when there is none (an empty dictionary)
NoSeries == [frms |-> <<>>, timings |-> <<>>]

\* no dictionary: nothing returned yet, or no stored file
NoRet == [set |-> FALSE]

\* the result files when none is stored
NoStore == [suvr |-> NoRet, brk |-> NoRet]

\* the user's first call, of function e with use_stored = us, the stored
\* result files being st
Top0(e, us, st) ==
    /\ entry = e
    /\ use_stored = us
    /\ store = st
    /\ ret = NoRet
    /\ prev = NoRet
    /\ ncall = 1

\* extract_vois is not part of the run
EV_Idle ==
    /\ impet = [ndim |-> 4, frames |-> <<>>]
    /\ atlas = <<>>
    /\ voi_dct = <<>>
    /\ atlas_mask = [given |-> FALSE, val |-> <<>>]
    /\ lbls = <<>>
    /\ amsk = <<>>
    /\ vk = 0
    /\ out = <<>>

\* the locals of align_break before they are assigned
Brk_Locals0 ==
    /\ decay_corr = <<>>
    /\ dcycrr = One
    /\ consulted = {}
    /\ fall = <<>>
    /\ niia = <<>>
    /\ brk_out = "none"

\* align_break is not part of the run
Brk_Idle ==
    /\ niidat = [descr |-> <<>>, tracer |-> "fbb", brk |-> NoSeries]
    /\ brk_tool = "spm"
    /\ nanfiles = {}
    /\ Brk_Locals0

\* the state on entry to align_frames(fniis, times, fref, Cnt, reg_tool)
\* called by the user
AF_Entry(n, t, cnt, tool) ==
    /\ pc = "af_config"
    /\ exc = "none"
    /\ used = {}
    /\ caller = "top"
    /\ Cnt = cnt
    /\ fniis = [k \in 1..n |-> k]
    /\ times = t
    /\ reg_tool = tool
    /\ save4d = TRUE
    /\ reg_metric = cnt.reg_metric
    /\ AF_Locals0
    /\ Suvr_Idle
    /\ Brk_Idle
    /\ Top0("align_frames", FALSE, NoStore)
    /\ EV_Idle

CntOf(L, thr, metric, dc) ==
    [frame_min_dur |-> L, reg_thrshld |-> thr, reg_metric |-> metric,
     decay_corr |-> dc]

(* The timing and mashing phase of align_frames (lines 104-255) on every  *)
(* kind of `times` argument and every list of pairs on the grid.           *)
InitMash ==
    \E n \in 1..MaxFrames, L \in 1..MaxMinDur :
       \/ \E ts \in PairLists(n) :
             AF_Entry(n, [kind |-> "list2d", val |-> ts],
                      CntOf(L, 1, "rss", FALSE), "spm")
       \/ \E m \in 1..MaxFrames : \E ts \in [1..m -> {<<0, 1>>, <<0, TMax>>}] :
             /\ m # n
             /\ AF_Entry(n, [kind |-> "list2d", val |-> ts],
                         CntOf(L, 1, "rss", FALSE), "spm")
       \/ \E m \in 1..MaxFrames : \E ds \in [1..m -> {1, TMax}] :
             AF_Entry(n, [kind |-> "list1d", val |-> ds],
                      CntOf(L, 1, "rss", FALSE), "spm")
       \/ AF_Entry(n, [kind |-> "other", val |-> <<>>],
                   CntOf(L, 1, "rss", FALSE), "spm")

NextMash == AF_Config \/ AF_Times \/ AF_Mash \/ AF_MashFiles

SpecMash == InitMash /\ [][NextMash]_vars

RECURSIVE Layout(_, _)
\* the [start, stop] pairs of consecutive frames of durations ds, the first
\* one starting at t0
Layout(t0, ds) ==
    IF ds = <<>> THEN <<>>
    ELSE <<<<t0, t0 + Head(ds)>>>> \o Layout(t0 + Head(ds), Tail(ds))

Reverse(s) == [k \in 1..Len(s) |-> s[Len(s) + 1 - k]]

(* Whole calls of align_frames on a series of consecutive frames starting *)
(* at time 0, listed in acquisition order or latest frame first, with      *)
(* every configuration of tool, metric and threshold.                      *)
InitAF ==
    \E n \in 1..MaxFrames, L \in 1..MaxMinDur, thr \in Thresholds,
       metric \in reg_metric_list \cup {"other"}, tool \in {"spm", "dipy"},
       rev \in BOOLEAN :
       \E ds \in [1..n -> 1..MaxDur] :
          AF_Entry(n,
                   [kind |-> "list2d",
                    val |-> IF rev THEN Reverse(Layout(0, ds)) ELSE Layout(0, ds)],
                   CntOf(L, thr, metric, FALSE), tool)

NextAF == AF_Config \/ AF_Times \/ AF_Mash \/ AF_MashFiles \/ AF_Register \/ AF_Return

SpecAF == InitAF /\ [][NextAF]_vars

----------------------------------------------------------------------------
(* Properties of align_frames *)

\* the errors raised before or by the two 'Mashing frames' checks
PreMashErrors ==
    {"ValueError: Unrecognised registration metric.",
     "ValueError: number of frames",
     "ValueError: unrecognised dimension for frame times",
     "ValueError: unrecognised frame times",
     "ValueError: Mashing frames inconsistent",
     "ValueError: Mashing frames inconsistency"}

\* the call of align_frames has got past both 'Mashing frames' checks
PastMashChecks ==
    /\ pc \notin {"af_config", "af_times", "af_mash"}
    /\ exc \notin PreMashErrors

\* consecutive, non-overlapping [start, stop] intervals with start >= 0
Consecutive(ts) ==
    /\ \A k \in 1..Len(ts) : ts[k][1] >= 0 /\ ts[k][1] <= ts[k][2]
    /\ \A k \in 1..(Len(ts) - 1) : ts[k][2] <= ts[k+1][1]

\* the places (group, position in the group) where frame index k occurs
PlacesOf(k) ==
    {p \in (1..Len(mfrms)) \X (1..Len(fniis)) :
        p[2] <= Len(mfrms[p[1]]) /\ mfrms[p[1]][p[2]] = k}

\* C1: for consecutive non-overlapping frames starting at or after 0,
\* once the call is past both 'Mashing frames' checks every frame index
\* occurs in exactly one group of mashed_frame_idx
C1_MashedPartition ==
    (PastMashChecks /\ times.kind = "list2d" /\ Consecutive(times.val))
        => \A k \in 1..Len(fniis) : Cardinality(PlacesOf(k)) = 1

\* C1 witness: consecutive frames past the checks, with a group of several
\* mashed short frames and a group of one normal-length frame
C1_Witness ==
    /\ PastMashChecks /\ times.kind = "list2d" /\ Consecutive(times.val)
    /\ Len(fniis) = 3
    /\ \E g \in 1..Len(mfrms) : Len(mfrms[g]) = 2
    /\ \E g \in 1..Len(mfrms) :
          Len(mfrms[g]) = 1 /\ mfrms[g][1] \in LongFrames(times.val, Cnt.frame_min_dur)

\* total duration of the frames of group g
GroupSpan(g) ==
    SeqSum([j \in 1..Len(mfrms[g]) |-> DurOf(times.val)[mfrms[g][j]]])

\* C3: every image registered to the reference (a mashed group or a single
\* frame) spans at least frame_min_dur in total
C3_GroupsSpanMinDur ==
    (pc = "af_register")
        => \A g \in 1..Len(mfrms) : GroupSpan(g) >= Cnt.frame_min_dur

\* the ValueErrors of the checks of the frame times
TimesErrors ==
    {"ValueError: number of frames",
     "ValueError: unrecognised dimension for frame times",
     "ValueError: unrecognised frame times"}

\* the checks of the frame times have run
TimesChecked == pc \notin {"af_config", "af_times"}

\* C10: 2-D lists of pairs and 1-D lists of durations with one entry per
\* frame are accepted; any other value, and any other number of entries,
\* raises ValueError
C10_TimesAccepted ==
    TimesChecked =>
        /\ (times.kind \in {"list2d", "list1d"} /\ Len(times.val) = Len(fniis))
              => exc \notin TimesErrors
        /\ (times.kind \notin {"list2d", "list1d"}) => exc \in TimesErrors
        /\ (times.kind \in {"list2d", "list1d"} /\ Len(times.val) # Len(fniis))
              => exc \in TimesErrors

\* the motion metric the variable reg_metric selects for group g
MetricOf(g) == IF reg_metric = "rss" THEN R[g] ELSE D[g]

\* the entries of faligned made from frame file f
AlignedOf(f) == {p \in 1..Len(faligned) : faligned[p].src = f}

\* C2: on return every frame of every group g has one aligned file, which
\* is resampled with the affine of g's registration iff the metric that
\* reg_metric selects for g (R[g] for 'rss', D[g] for 'adst') is strictly
\* greater than reg_thrshld, and is a plain copy of the frame otherwise
C2_ResampleIffAbove ==
    (pc = "done") =>
        \A g \in 1..Len(mfrms) : \A j \in 1..Len(mfrms[g]) :
            LET f == fniis[mfrms[g][j]]
            IN /\ Cardinality(AlignedOf(f)) = 1
               /\ \A p \in AlignedOf(f) :
                     IF MetricOf(g) > Cnt.reg_thrshld
                     THEN /\ faligned[p].op = "resample_" \o reg_tool
                          /\ faligned[p].aff = S[g]
                          /\ S[g] # NoAff
                     ELSE faligned[p].op = "copy"

\* C2 witness: a returned call with a two-frame group whose metric equals
\* the threshold (copied) and another group whose metric exceeds it
C2_Witness ==
    /\ pc = "done"
    /\ \E g \in 1..Len(mfrms) :
          /\ Len(mfrms[g]) = 2
          /\ MetricOf(g) = Cnt.reg_thrshld
          /\ \A j \in 1..2 : \E p \in 1..Len(faligned) :
                faligned[p] = [src |-> fniis[mfrms[g][j]], op |-> "copy", aff |-> NoAff]
    /\ \E g \in 1..Len(mfrms) : \E p \in 1..Len(faligned) :
          /\ MetricOf(g) > Cnt.reg_thrshld
          /\ faligned[p].src = fniis[mfrms[g][1]]
          /\ faligned[p].aff = S[g]

\* C4: on return faligned[k] is the aligned file of fniis[k] for every k,
\* and so are the frames of the 4D image saved from it
C4_InputOrder ==
    (pc = "done") =>
        \A k \in 1..Len(fniis) :
            /\ faligned[k].src = fniis[k]
            /\ outdct.im4d[k].src = fniis[k]

----------------------------------------------------------------------------
(* align_suvr (lines 418-836) *)

\* number of SUVr frames, nsfrm
NSuvr == Len(stat_tdata.suvr)

\* number of frames of the series, nfrm
NStat == Len(stat_tdata.frms)

\* the 2-combinations of 1..n in the order of itertools.combinations
Combos(n) ==
    LET all == {p \in (1..n) \X (1..n) : p[1] < p[2]}
        rank(p) == Cardinality({q \in all : q[1] < p[1] \/ (q[1] = p[1] /\ q[2] < p[2])})
    IN [c \in 1..Cardinality(all) |-> CHOOSE p \in all : rank(p) = c - 1]

\* affine file of the registration of floating frame b to reference frame a
CombiAff(a, b) == [kind |-> "combi", a |-> a, b |-> b]

\* idx_r: the frame at position q of the series is not an SUVr frame
IsWide(q) == \A j \in 1..NSuvr : stat_tdata.suvr[j] # stat_tdata.frms[q]

\* positions of the non-SUVr frames, in order
WidePos == SortedSeq({q \in 1..NStat : IsWide(q)})

\* a test that looks at use_stored alone, not at the file
UseStored_flag(flag, file) == flag

\* the test of line 513 inverted: the stored result is to be loaded
UseStored(flag, file) == flag /\ file.set

\* lines 444-531: configuration, metric check, DIPY switch, folders, the
\* test of the stored result, arrays
Suvr_Config ==
    /\ pc = "suvr_config"
    /\ IF Cnt.reg_metric \notin reg_metric_list
       THEN /\ Raise("ValueError: Unrecognised registration metric.")
            /\ UNCHANGED <<suvr_metric, Rs, Ds, Ss, ci>>
       ELSE /\ suvr_metric' = IF suvr_tool = "dipy" /\ Cnt.reg_metric = "rss"
                              THEN "adst" ELSE Cnt.reg_metric
            /\ IF UseStored(use_stored, store.suvr)
               THEN /\ pc' = "suvr_load"
                    /\ UNCHANGED <<Rs, Ds, Ss, ci>>
               ELSE /\ Rs' = [a \in 1..NSuvr |-> [b \in 1..NSuvr |-> 0]]
                    /\ Ds' = [a \in 1..NSuvr |-> [b \in 1..NSuvr |-> 0]]
                    /\ Ss' = [a \in 1..NSuvr |-> [b \in 1..NSuvr |-> NoAff]]
                    /\ ci' = 0
                    /\ pc' = "suvr_core"
            /\ UNCHANGED exc
    /\ used' = used \cup (IF Cnt.reg_metric \in reg_metric_list
                          THEN {"create_dir"} ELSE {})
    /\ UNCHANGED <<Cnt, caller, afvars, stat_tdata, suvr_tool, rfrm,
                   suvr_fpeti, S_w, R_w, D_w, fnii_aligned_w, wfi, fwi, fsi,
                   aligned_suvr>>
    /\ UNCHANGED <<brvars, topvars>>
    /\ UNCHANGED evvars

\* lines 534-631: one combination of SUVr frames, registered both ways
Suvr_Pair ==
    /\ pc = "suvr_core"
    /\ ci < Len(Combos(NSuvr))
    /\ LET c == Combos(NSuvr)[ci + 1]
           frm0 == c[1]
           frm1 == c[2]
       IN \E r01 \in MetricValues, d01 \in MetricValues,
             r10 \in MetricValues, d10 \in MetricValues :
            /\ (suvr_tool # "spm" => r01 = 0 /\ r10 = 0)
            /\ (suvr_tool \notin {"spm", "dipy"} => d01 = 0 /\ d10 = 0)
            /\ Rs' = [Rs EXCEPT ![frm0][frm1] = r01, ![frm1][frm0] = r10]
            /\ Ds' = [Ds EXCEPT ![frm0][frm1] = d01, ![frm1][frm0] = d10]
            /\ Ss' = IF suvr_tool \in {"spm", "dipy"}
                     THEN [Ss EXCEPT ![frm0][frm1] = CombiAff(frm0, frm1),
                                     ![frm1][frm0] = CombiAff(frm1, frm0)]
                     ELSE Ss
            /\ used' = used \cup (IF suvr_tool = "spm" THEN {"coreg_spm"}
                                  ELSE IF suvr_tool = "dipy" THEN {"affine_dipy"}
                                  ELSE {})
    /\ ci' = ci + 1
    /\ UNCHANGED <<pc, exc, Cnt, caller, afvars, stat_tdata, suvr_tool,
                   suvr_metric, rfrm, suvr_fpeti, S_w, R_w, D_w,
                   fnii_aligned_w, wfi, fwi, fsi, aligned_suvr>>
    /\ UNCHANGED <<brvars, topvars>>
    /\ UNCHANGED evvars

\* the row sum of M alone for frame k
RowColSum_rows(M, k) == SeqSum([j \in 1..Len(M) |-> M[k][j]])

\* fsum + rsum of lines 637-645 for frame k: column sum plus row sum of M
RowColSum(M, k) ==
    SeqSum([i \in 1..Len(M) |-> M[i][k]]) + SeqSum([j \in 1..Len(M) |-> M[k][j]])

\* np.argmin (1-based): the first position of the smallest value
ArgMin(v) == CHOOSE k \in 1..Len(v) :
                /\ \A j \in 1..Len(v) : v[k] <= v[j]
                /\ \A j \in 1..(k-1) : v[j] > v[k]

\* rfrm = np.argmin(fsum + rsum)
RefFrame(M) == ArgMin([k \in 1..Len(M) |-> RowColSum(M, k)])

\* the aligned file of SUVr frame ifrm, reference frame rf (lines 669-702)
SuvrAligned(rf, ifrm) ==
    IF MotionAbove(Rs[rf][ifrm], Ds[rf][ifrm], Cnt.reg_thrshld, suvr_metric)
    THEN IF suvr_tool = "spm"
         THEN [src |-> stat_tdata.suvr[ifrm], op |-> "resample_spm", aff |-> Ss[rf][ifrm]]
         ELSE [src |-> stat_tdata.suvr[ifrm], op |-> "resample_dipy", aff |-> Ss[rf][ifrm]]
    ELSE [src |-> stat_tdata.suvr[ifrm], op |-> "orig", aff |-> NoAff]

\* fnii_aligned: the reference first, then the other frames in index order
SuvrAlignedList(rf) ==
    LET others == SortedSeq((1..NSuvr) \ {rf})
    IN <<[src |-> stat_tdata.suvr[rf], op |-> "orig", aff |-> NoAff]>>
       \o [j \in 1..Len(others) |-> SuvrAligned(rf, others[j])]

\* centre_mass_corr writes a centre-of-mass corrected copy of a file
CoMFile(f) == [f EXCEPT !.op = "com_" \o f.op]

\* lines 635-763: the reference frame, the aligned SUVr frames, the single
\* SUVr frame and the centre-of-mass correction
Suvr_Reference ==
    /\ pc = "suvr_core"
    /\ ci = Len(Combos(NSuvr))
    /\ IF NSuvr = 0
       THEN /\ Raise("ValueError: attempt to get argmin of an empty sequence")
            /\ UNCHANGED <<rfrm, suvr_fpeti, used>>
       ELSE /\ rfrm' = RefFrame(Rs)
            /\ suvr_fpeti' = [i \in 1..NSuvr |-> CoMFile(SuvrAlignedList(rfrm')[i])]
            /\ used' = used \cup {"array2nii"} \cup
                 ({SuvrAlignedList(rfrm')[i].op : i \in 1..NSuvr}
                     \cap {"resample_spm", "resample_dipy"})
            /\ pc' = "suvr_call"
            /\ UNCHANGED exc
    /\ UNCHANGED <<Cnt, caller, afvars, stat_tdata, suvr_tool, suvr_metric,
                   Rs, Ds, Ss, ci, S_w, R_w, D_w, fnii_aligned_w, wfi, fwi,
                   fsi, aligned_suvr>>
    /\ UNCHANGED <<brvars, topvars>>
    /\ UNCHANGED evvars

\* the reg_tool of align_frames when the caller passes none (line 80)
DefaultRegTool == "spm"

\* the reg_tool align_suvr passes to align_frames (lines 776-782: none)
WideRegTool(tool) == DefaultRegTool

\* lines 770-782: the remaining frames of the series go to align_frames
Suvr_CallFrames ==
    /\ pc = "suvr_call"
    /\ fniis' = [j \in 1..Len(WidePos) |-> stat_tdata.frms[WidePos[j]]]
    /\ times' = [kind |-> "list2d",
                 val |-> [j \in 1..Len(WidePos) |-> stat_tdata.timings[WidePos[j]]]]
    /\ reg_tool' = WideRegTool(suvr_tool)
    /\ save4d' = FALSE
    /\ caller' = "align_suvr"
    /\ pc' = "af_config"
    /\ UNCHANGED <<exc, used, Cnt, reg_metric, mfrms, mfrms_out, R, D, S,
                   faligned, fi, mi, outdct, suvars, brvars, topvars, evvars>>

\* lines 785-799: the per-frame arrays and the counters
Suvr_WideInit ==
    /\ pc = "suvr_wide"
    /\ S_w' = [q \in 1..NStat |-> NoAff]
    /\ R_w' = [q \in 1..NStat |-> 0]
    /\ D_w' = [q \in 1..NStat |-> 0]
    /\ fnii_aligned_w' = [q \in 1..NStat |-> NoFile]
    /\ wfi' = 0
    /\ fwi' = 0
    /\ fsi' = 0
    /\ pc' = "suvr_loop"
    /\ UNCHANGED <<exc, used, Cnt, caller, afvars, stat_tdata, suvr_tool,
                   suvr_metric, Rs, Ds, Ss, ci, rfrm, suvr_fpeti, aligned_suvr>>
    /\ UNCHANGED <<brvars, topvars>>
    /\ UNCHANGED evvars

\* the entry of a per-group list of aligned_wide read for the wide frame
\* with counter value cnt (0-based): lines 803-805 index it with fwi
WideEntry(cnt) == cnt + 1

\* lines 801-815: one iteration of the loop over the frames of the series
Suvr_WideStep ==
    /\ pc = "suvr_loop"
    /\ wfi < NStat
    /\ LET q == wfi + 1
       IN IF IsWide(q)
          THEN IF WideEntry(fwi) > Len(outdct.affines)
               THEN /\ Raise("IndexError: list index out of range")
                    /\ UNCHANGED <<S_w, R_w, D_w, fnii_aligned_w, wfi, fwi, fsi>>
               ELSE /\ S_w' = [S_w EXCEPT ![q] = outdct.affines[WideEntry(fwi)]]
                    /\ R_w' = [R_w EXCEPT ![q] = outdct.metric[WideEntry(fwi)]]
                    /\ D_w' = [D_w EXCEPT ![q] = outdct.metric2[WideEntry(fwi)]]
                    /\ fnii_aligned_w' = [fnii_aligned_w EXCEPT ![q] = outdct.faligned[fwi + 1]]
                    /\ fwi' = fwi + 1
                    /\ wfi' = wfi + 1
                    /\ UNCHANGED <<pc, exc, fsi>>
          ELSE /\ fnii_aligned_w' = [fnii_aligned_w EXCEPT ![q] = suvr_fpeti[fsi + 1]]
               /\ S_w' = [S_w EXCEPT ![q] = Ss[rfrm][fsi + 1]]
               /\ R_w' = [R_w EXCEPT ![q] = Rs[rfrm][fsi + 1]]
               /\ fsi' = fsi + 1
               /\ wfi' = wfi + 1
               /\ UNCHANGED <<pc, exc, D_w, fwi>>
    /\ UNCHANGED <<used, Cnt, caller, afvars, stat_tdata, suvr_tool,
                   suvr_metric, Rs, Ds, Ss, ci, rfrm, suvr_fpeti, aligned_suvr>>
    /\ UNCHANGED <<brvars, topvars>>
    /\ UNCHANGED evvars

\* where the caller of align_suvr continues
AfterSuvr(e) == IF e = "align" THEN "align_break_call" ELSE "done"

\* lines 817-836: the output dictionary is saved and returned
Suvr_Return ==
    /\ pc = "suvr_loop"
    /\ wfi = NStat
    /\ aligned_suvr' =
         [set |-> TRUE,
          suvr |-> [fpeti |-> suvr_fpeti, Metric |-> Rs, faff |-> Ss],
          wide |-> [fpeti |-> fnii_aligned_w, Metric |-> R_w, faff |-> S_w]]
    /\ store' = [store EXCEPT !.suvr = aligned_suvr']
    /\ ret' = IF entry = "align_suvr" THEN aligned_suvr' ELSE ret
    /\ pc' = AfterSuvr(entry)
    /\ used' = used \cup {"array2nii", "np.save"}
    /\ UNCHANGED <<exc, Cnt, caller, afvars, stat_tdata, suvr_tool,
                   suvr_metric, Rs, Ds, Ss, ci, rfrm, suvr_fpeti, S_w, R_w,
                   D_w, fnii_aligned_w, wfi, fwi, fsi>>
    /\ UNCHANGED <<brvars, entry, use_stored, prev, ncall>>
    /\ UNCHANGED evvars

\* lines 832-836: the stored dictionary is loaded and returned
Suvr_Load ==
    /\ pc = "suvr_load"
    /\ aligned_suvr' = store.suvr
    /\ ret' = IF entry = "align_suvr" THEN aligned_suvr' ELSE ret
    /\ pc' = AfterSuvr(entry)
    /\ UNCHANGED <<exc, used, Cnt, caller, afvars, stat_tdata, suvr_tool,
                   suvr_metric, Rs, Ds, Ss, ci, rfrm, suvr_fpeti, S_w, R_w,
                   D_w, fnii_aligned_w, wfi, fwi, fsi>>
    /\ UNCHANGED <<brvars, entry, use_stored, store, prev, ncall>>
    /\ UNCHANGED evvars

\* the state on entry to align_suvr(stat_tdata, Cnt, reg_tool)
Suvr_Entry(sd, cnt, tool) ==
    /\ pc = "suvr_config"
    /\ exc = "none"
    /\ used = {}
    /\ caller = "top"
    /\ Cnt = cnt
    /\ fniis = <<>>
    /\ times = [kind |-> "list2d", val |-> <<>>]
    /\ reg_tool = DefaultRegTool
    /\ save4d = FALSE
    /\ reg_metric = cnt.reg_metric
    /\ AF_Locals0
    /\ stat_tdata = sd
    /\ suvr_tool = tool
    /\ suvr_metric = cnt.reg_metric
    /\ Suvr_Locals0
    /\ Brk_Idle
    /\ Top0("align_suvr", FALSE, NoStore)
    /\ EV_Idle

(* Calls of align_suvr on a static series of consecutive frames starting  *)
(* at time 0, any one or more of them being the SUVr frames.              *)
InitSuvr ==
    \E n \in 1..MaxStatic, L \in 1..MaxMinDur, thr \in Thresholds,
       metric \in reg_metric_list \cup {"other"}, tool \in {"spm", "dipy"} :
       \E ds \in [1..n -> 1..MaxDur], sv \in SUBSET (1..n) :
          /\ Cardinality(sv) \in 1..MaxSuvr
          /\ Suvr_Entry([frms |-> [k \in 1..n |-> k],
                         suvr |-> SortedSeq(sv),
                         timings |-> Layout(0, ds)],
                        CntOf(L, thr, metric, FALSE), tool)

NextSuvr ==
    \/ Suvr_Config \/ Suvr_Pair \/ Suvr_Reference \/ Suvr_CallFrames
    \/ AF_Config \/ AF_Times \/ AF_Mash \/ AF_MashFiles \/ AF_Register \/ AF_Return
    \/ Suvr_WideInit \/ Suvr_WideStep \/ Suvr_Return

SpecSuvr == InitSuvr /\ [][NextSuvr]_vars

----------------------------------------------------------------------------
(* Properties of align_suvr *)

\* the loop over the frames of the series has started
InWideLoop == outdct.set /\ caller = "align_suvr" /\ pc # "suvr_wide"

\* the number of non-SUVr frames among the first q frames of the series
WideRank(q) == Cardinality({p \in 1..q : IsWide(p)})

\* the groups of mashed_frame_idx that contain wide frame k
GroupsOf(k) ==
    {g \in 1..Len(outdct.mashed_frame_idx) :
        \E j \in 1..Len(outdct.mashed_frame_idx[g]) :
            outdct.mashed_frame_idx[g][j] = k}

\* C5: the loop over the frames of the series raises nothing, and for every
\* processed position q that is not an SUVr frame the wide affine and
\* metric at q are those of the mashed group containing that frame and the
\* wide file at q is the aligned file of that frame
C5_WideOfContainingGroup ==
    InWideLoop =>
        /\ exc = "none"
        /\ \A q \in 1..wfi : IsWide(q) =>
              /\ fnii_aligned_w[q].src = stat_tdata.frms[q]
              /\ \A g \in GroupsOf(WideRank(q)) :
                    /\ S_w[q] = outdct.affines[g]
                    /\ R_w[q] = outdct.metric[g]

\* C9: a call with reg_tool='dipy' never invokes an SPM registration or an
\* SPM resampling
C9_DipyOnly ==
    suvr_tool = "dipy" => used \cap {"coreg_spm", "resample_spm"} = {}

----------------------------------------------------------------------------
(* align_break (lines 843-990) *)

\* tracer groups (lines 31-32)
f18group == {"fbb", "fbp", "flute"}
c11group == {"pib"}

\* id_acq(niidat, acq_type='break'): the data of the coffee-break series,
\* empty when niidat describes no such series
BreakData(nd) ==
    IF \E i \in 1..Len(nd.descr) : nd.descr[i].acq = "break" THEN nd.brk ELSE NoSeries

\* truth value of a Python tuple: true unless it is empty
TupleTruth(t) == Len(t) > 0

\* ts = [sri['time'][0] for sri in niidat['descr']]
SeriesStarts(nd) == [i \in 1..Len(nd.descr) |-> nd.descr[i].time]

\* td = [ts[i]-ts[i_tref] for i in i_tsrs], i_tsrs the indices other than i_tref
TimeDiffs(ts) ==
    LET i_tref == ArgMin(ts)
        i_tsrs == SortedSeq((1..Len(ts)) \ {i_tref})
    IN [j \in 1..Len(i_tsrs) |-> ts[i_tsrs[j]] - ts[i_tref]]

\* istp = 'F18'*(tracer in f18group) + 'C11'*(tracer in c11group)
Isotope(tracer) ==
    IF tracer \in f18group THEN "F18" ELSE IF tracer \in c11group THEN "C11" ELSE ""

\* dcycrr = 1/np.exp(-lmbd * td), which is exactly 1 for td = 0
DecayFactor(istp, td) == IF td = 0 THEN One ELSE [istp |-> istp, td |-> td]

\* nimpa.getnii(frm): the image of a file, here one voxel, which is NaN or
\* a value of the source frame, with the factor it has been multiplied by
getnii(f) ==
    [src |-> f.src, vox |-> IF f.src \in nanfiles THEN "nan" ELSE "val", scale |-> One]

\* dcycrr * im: NaN stays NaN
Scaled(dc, im) == IF im.vox = "val" THEN [im EXCEPT !.scale = dc] ELSE im

\* im_[np.isnan(im_)] = 0
RemoveNaN(im) == IF im.vox = "nan" THEN [im EXCEPT !.vox = "zero"] ELSE im

\* a frame of np.zeros
ZeroFrame == [src |-> 0, vox |-> "zero", scale |-> One]

\* a function that goes on to the decay correction whatever the data
AfterBreakData_on(bd) == "brk_decay"

\* where align_break continues after id_acq: 'if not bdyn_tdata: return'
AfterBreakData(bd) == IF bd = NoSeries THEN "done" ELSE "brk_decay"

\* lines 862-878: configuration; without coffee-break data aligned_suvr is
\* returned
Brk_Config ==
    /\ pc = "brk_config"
    /\ decay_corr' = <<Cnt.decay_corr>>
    /\ pc' = AfterBreakData(BreakData(niidat))
    /\ IF BreakData(niidat) = NoSeries
       THEN /\ brk_out' = "aligned_suvr"
            /\ ret' = aligned_suvr
       ELSE UNCHANGED <<brk_out, ret>>
    /\ UNCHANGED <<exc, used, Cnt, caller, afvars, suvars, niidat, brk_tool,
                   nanfiles, dcycrr, consulted, fall, niia>>
    /\ UNCHANGED <<entry, use_stored, store, prev, ncall>>
    /\ UNCHANGED evvars

\* lines 881-906: the decay correction factor
Brk_Decay ==
    /\ pc = "brk_decay"
    /\ IF TupleTruth(decay_corr)
       THEN LET td == TimeDiffs(SeriesStarts(niidat))
                istp == Isotope(niidat.tracer)
            IN IF Len(td) > 1
               THEN /\ Raise("ValueError: currently only one dynamic break is allowed")
                    /\ consulted' = {"time"}
                    /\ UNCHANGED dcycrr
               ELSE IF Len(td) = 0
               THEN /\ Raise("IndexError: list index out of range")
                    /\ consulted' = {"time"}
                    /\ UNCHANGED dcycrr
               ELSE IF istp = ""
               THEN /\ Raise("KeyError: ''")
                    /\ consulted' = {"time", "tracer"}
                    /\ UNCHANGED dcycrr
               ELSE /\ dcycrr' = DecayFactor(istp, td[1])
                    /\ consulted' = {"time", "tracer"}
                    /\ pc' = "brk_call"
                    /\ UNCHANGED exc
       ELSE /\ dcycrr' = One
            /\ pc' = "brk_call"
            /\ UNCHANGED <<exc, consulted>>
    /\ UNCHANGED <<used, Cnt, caller, afvars, suvars, niidat, brk_tool,
                   nanfiles, decay_corr, fall, niia, brk_out>>
    /\ UNCHANGED topvars
    /\ UNCHANGED evvars

\* lines 917-925: the stored dictionary is loaded and returned
Brk_Load ==
    /\ pc = "brk_call"
    /\ UseStored(use_stored, store.brk)
    /\ ret' = store.brk
    /\ brk_out' = "stored"
    /\ pc' = "done"
    /\ UNCHANGED <<exc, used, Cnt, caller, afvars, suvars, niidat, brk_tool,
                   nanfiles, decay_corr, dcycrr, consulted, fall, niia>>
    /\ UNCHANGED <<entry, use_stored, store, prev, ncall>>
    /\ UNCHANGED evvars

\* lines 917-948: without a stored result to use, the coffee-break frames
\* go to align_frames
Brk_CallFrames ==
    /\ pc = "brk_call"
    /\ ~UseStored(use_stored, store.brk)
    /\ fniis' = BreakData(niidat).frms
    /\ times' = [kind |-> "list2d", val |-> BreakData(niidat).timings]
    /\ reg_tool' = brk_tool
    /\ save4d' = FALSE
    /\ caller' = "align_break"
    /\ pc' = "af_config"
    /\ UNCHANGED <<exc, used, Cnt, reg_metric, mfrms, mfrms_out, R, D, S,
                   faligned, fi, mi, outdct, suvars, brvars, topvars, evvars>>

\* a static slot that starts at the last coffee-break index itself
StaticSlot_overlap(lastfi, fii) == lastfi + fii

\* the frame of niia a static frame is written to: niia[fi+1+fii], fi being
\* the index of the last coffee-break frame (0-based)
StaticSlot(lastfi, fii) == lastfi + 1 + fii

\* niia after the two loops of lines 959-968 (slots are 0-based)
Assembled(brk, stat, dc) ==
    LET nb == Len(brk)
        hit(p) == {j \in 1..Len(stat) : StaticSlot(nb - 1, j - 1) = p - 1}
        last(p) == CHOOSE j \in hit(p) : \A j2 \in hit(p) : j2 <= j
    IN [p \in 1..(nb + Len(stat)) |->
          IF hit(p) # {} THEN RemoveNaN(Scaled(dc, getnii(stat[last(p)])))
          ELSE IF p <= nb THEN RemoveNaN(getnii(brk[p]))
          ELSE ZeroFrame]

\* outdct = dict(fpet, fpeti=fall, alignment=aligned) updated with the
\* entries of aligned_suvr (lines 986-987)
BrkDict(fpeti, aligned, asuvr) ==
    [set |-> TRUE, fpeti |-> fpeti, alignment |-> aligned,
     suvr |-> asuvr.suvr, wide |-> asuvr.wide]

\* lines 954-990: the 4D image and the output dictionary
Brk_Assemble ==
    /\ pc = "brk_assemble"
    /\ LET brk == outdct.faligned
           stat == aligned_suvr.wide.fpeti
       IN IF Len(brk) = 0 \/ \E k \in 1..Len(brk) : brk[k] = NoFile
          THEN /\ Raise("Error: no image file to read")
               /\ UNCHANGED <<fall, niia, brk_out, used, ret, store>>
          ELSE IF \E j \in 1..Len(stat) :
                     StaticSlot(Len(brk) - 1, j - 1) >= Len(brk) + Len(stat)
          THEN /\ Raise("IndexError: index out of bounds")
               /\ UNCHANGED <<fall, niia, brk_out, used, ret, store>>
          ELSE /\ fall' = brk \o stat
               /\ niia' = Assembled(brk, stat, dcycrr)
               /\ brk_out' = "outdct"
               /\ ret' = BrkDict(fall', outdct, aligned_suvr)
               /\ store' = [store EXCEPT !.brk = ret']
               /\ pc' = "done"
               /\ used' = used \cup {"array2nii", "np.save"}
               /\ UNCHANGED exc
    /\ UNCHANGED <<Cnt, caller, afvars, suvars, niidat, brk_tool,
                   nanfiles, decay_corr, dcycrr, consulted>>
    /\ UNCHANGED <<entry, use_stored, prev, ncall>>
    /\ UNCHANGED evvars

\* the file key of static frame k, distinct from the coffee-break keys
StatKey(k) == MaxBreak + MaxStatic + k

\* an aligned_suvr whose wide list holds ns aligned static frame files
AlignedStatic(ns) ==
    [set |-> TRUE,
     suvr |-> [fpeti |-> <<>>, Metric |-> <<>>, faff |-> <<>>],
     wide |-> [fpeti |-> [k \in 1..ns |-> [src |-> StatKey(k), op |-> "copy", aff |-> NoAff]],
               Metric |-> [k \in 1..ns |-> 0],
               faff |-> [k \in 1..ns |-> NoAff]]]

\* the state on entry to align_break(niidat, aligned_suvr, Cnt, reg_tool)
Brk_Entry(nd, asuvr, cnt, tool, nans) ==
    /\ pc = "brk_config"
    /\ exc = "none"
    /\ used = {}
    /\ caller = "top"
    /\ Cnt = cnt
    /\ fniis = <<>>
    /\ times = [kind |-> "list2d", val |-> <<>>]
    /\ reg_tool = DefaultRegTool
    /\ save4d = FALSE
    /\ reg_metric = cnt.reg_metric
    /\ AF_Locals0
    /\ stat_tdata = [frms |-> <<>>, suvr |-> <<>>, timings |-> <<>>]
    /\ suvr_tool = "spm"
    /\ suvr_metric = "rss"
    /\ Rs = <<>> /\ Ds = <<>> /\ Ss = <<>> /\ ci = 0 /\ rfrm = 0
    /\ suvr_fpeti = <<>> /\ S_w = <<>> /\ R_w = <<>> /\ D_w = <<>>
    /\ fnii_aligned_w = <<>> /\ wfi = 0 /\ fwi = 0 /\ fsi = 0
    /\ aligned_suvr = asuvr
    /\ niidat = nd
    /\ brk_tool = tool
    /\ nanfiles = nans
    /\ Brk_Locals0
    /\ Top0("align_break", FALSE, NoStore)
    /\ EV_Idle

\* descriptions of a series: its acquisition type and its start time
SeriesDescr == [acq : {"break", "static"}, time : 0..MaxStart]

(* Calls of align_break on any description of up to MaxSeries series, any *)
(* tracer and either value of decay_corr, with one coffee-break frame     *)
(* (when a coffee-break series is described) and one static frame.        *)
InitBreakDecay ==
    \E m \in 1..MaxSeries, tracer \in {"fbb", "pib", "other"}, dc \in BOOLEAN :
       \E descr \in [1..m -> SeriesDescr] :
          Brk_Entry([descr |-> descr, tracer |-> tracer,
                     brk |-> IF \E i \in 1..m : descr[i].acq = "break"
                             THEN [frms |-> <<1>>, timings |-> <<<<0, 1>>>>]
                             ELSE NoSeries],
                    AlignedStatic(1), CntOf(1, 0, "rss", dc), "spm", {})

(* Calls of align_break on a coffee-break series followed by a static     *)
(* series, with any numbers of frames, any frame durations, any set of    *)
(* frames holding NaN voxels, and a registration threshold of 0.          *)
InitBreakFrames ==
    \E nb \in 1..MaxBreak, ns \in 0..MaxWide, L \in 1..MaxMinDur,
       dc \in BOOLEAN, tool \in {"spm", "dipy"} :
       \E ds \in [1..nb -> 1..MaxDur],
          nans \in SUBSET ((1..nb) \cup {StatKey(k) : k \in 1..ns}) :
          Brk_Entry([descr |-> <<[acq |-> "break", time |-> 0],
                                 [acq |-> "static", time |-> 1]>>,
                     tracer |-> "pib",
                     brk |-> [frms |-> [k \in 1..nb |-> k], timings |-> Layout(0, ds)]],
                    AlignedStatic(ns), CntOf(L, 0, "rss", dc), tool, nans)

InitBreak == InitBreakDecay \/ InitBreakFrames

NextBreak ==
    \/ Brk_Config \/ Brk_Decay \/ Brk_CallFrames
    \/ AF_Config \/ AF_Times \/ AF_Mash \/ AF_MashFiles \/ AF_Register \/ AF_Return
    \/ Brk_Assemble

SpecBreak == InitBreak /\ [][NextBreak]_vars

----------------------------------------------------------------------------
(* Properties of align_break *)

\* the decay correction step of align_break is over
PastDecay == pc \notin {"brk_config", "brk_decay"}

\* the frames of niia made from the aligned coffee-break frames
BreakFrames == {p \in 1..Len(niia) : p <= Len(outdct.faligned)}

\* the frames of niia made from the aligned static frames
StaticFrames == {p \in 1..Len(niia) : p > Len(outdct.faligned)}

\* every frame of block P that holds a value has been multiplied by dc
ScaledBy(P, dc) == \A p \in P : niia[p].vox = "val" => niia[p].scale = dc

\* C6: with Cnt['align']['decay_corr'] False, once the decay step is over
\* the factor is 1, no start time and no tracer has been read, nothing has
\* been raised by the decay step, and the static frames of the 4D image
\* are unscaled
C6_NoDecayWhenOff ==
    (Cnt.decay_corr = FALSE /\ PastDecay) =>
        /\ dcycrr = One
        /\ consulted = {}
        /\ (brk_out = "outdct" => ScaledBy(StaticFrames, One))

\* niidat describes one coffee-break series and one static series
OneBreakOneStatic ==
    /\ Len(niidat.descr) = 2
    /\ {niidat.descr[1].acq, niidat.descr[2].acq} = {"break", "static"}

\* the index in descr of the series of acquisition type a
SeriesOf(a) == (CHOOSE i \in 1..2 : niidat.descr[i].acq = a)

\* C7: with decay_corr True, in the assembled image the frames of the
\* series that starts first are unscaled and the frames of the other
\* series are multiplied by the decay factor of the start-time difference
C7_RelativeToEarliest ==
    (Cnt.decay_corr = TRUE /\ brk_out = "outdct" /\ OneBreakOneStatic) =>
        LET tb == niidat.descr[SeriesOf("break")].time
            tst == niidat.descr[SeriesOf("static")].time
            istp == Isotope(niidat.tracer)
        IN IF tst < tb
           THEN /\ ScaledBy(StaticFrames, One)
                /\ ScaledBy(BreakFrames, DecayFactor(istp, tb - tst))
           ELSE /\ ScaledBy(BreakFrames, One)
                /\ ScaledBy(StaticFrames, DecayFactor(istp, tst - tb))

\* the voxel an image file leaves in the 4D image: 0 for NaN
VoxOf(f) == IF f.src \in nanfiles THEN "zero" ELSE "val"

\* C8: the assembled image and fpeti hold the nb aligned coffee-break
\* frames in their order followed by the ns aligned static frames in their
\* order, nb + ns frames in all, each frame the image of its own file, and
\* no voxel is NaN: NaN has become 0
C8_Assembly ==
    (brk_out = "outdct") =>
        LET brk == outdct.faligned
            stat == aligned_suvr.wide.fpeti
            nb == Len(brk)
            ns == Len(stat)
        IN /\ Len(niia) = nb + ns
           /\ fall = brk \o stat
           /\ \A k \in 1..nb :
                 niia[k].src = brk[k].src /\ niia[k].vox = VoxOf(brk[k])
           /\ \A j \in 1..ns :
                 niia[nb + j].src = stat[j].src /\ niia[nb + j].vox = VoxOf(stat[j])
           /\ \A p \in 1..Len(niia) : \A q \in 1..Len(niia) :
                 niia[p].src = niia[q].src => p = q

\* C8 witness: an assembled image of two coffee-break and two static
\* frames, with a NaN frame and a NaN-free frame in each block
C8_Witness ==
    /\ brk_out = "outdct"
    /\ Len(outdct.faligned) = 2
    /\ Len(aligned_suvr.wide.fpeti) = 2
    /\ Len(niia) = 4
    /\ \E p \in BreakFrames, q \in BreakFrames :
          niia[p].vox = "zero" /\ niia[q].vox = "val"
    /\ \E p \in StaticFrames, q \in StaticFrames :
          niia[p].vox = "zero" /\ niia[q].vox = "val"
    /\ nanfiles # {}

----------------------------------------------------------------------------
(* The first steps of align_frames and of align_suvr *)

(* Calls of align_suvr on a series made of SUVr frames only, up to the    *)
(* choice of the reference frame.                                         *)
InitRef ==
    \E n \in SuvrCounts, thr \in Thresholds,
       metric \in reg_metric_list \cup {"other"}, tool \in {"spm", "dipy"} :
       Suvr_Entry([frms |-> [k \in 1..n |-> k],
                   suvr |-> [k \in 1..n |-> k],
                   timings |-> Layout(0, [k \in 1..n |-> MaxDur])],
                  CntOf(1, thr, metric, FALSE), tool)

NextRef == Suvr_Config \/ Suvr_Pair \/ Suvr_Reference

SpecRef == InitRef /\ [][NextRef]_vars

InitEntry == InitAF \/ InitRef

NextEntry == NextAF \/ NextRef

SpecEntry == InitEntry /\ [][NextEntry]_vars

\* the error of the check of the registration metric
MetricError == "ValueError: Unrecognised registration metric."

\* the call is past the configuration of the function entered
PastConfig == pc \notin {"af_config", "suvr_config"}

\* C11: a call with a reg_metric other than 'rss' and 'adst' has raised
\* the ValueError once the configuration is over; a call with 'rss' or
\* 'adst' never raises it; and when it is raised no directory has been
\* created, no registration or resampling run and no file written
C11_MetricChecked ==
    /\ (PastConfig /\ Cnt.reg_metric \notin {"rss", "adst"}) => exc = MetricError
    /\ (Cnt.reg_metric \in {"rss", "adst"}) => exc # MetricError
    /\ (exc = MetricError) => used = {}

\* C11 witness: align_suvr has raised the ValueError for an unrecognised
\* metric and nothing has been invoked
C11_Witness ==
    /\ exc = MetricError
    /\ stat_tdata.frms # <<>>
    /\ Cnt.reg_metric = "other"
    /\ used = {}

\* the aligned SUVr frames decided so far are resampled iff their adst
\* metric D to the reference exceeds the threshold
SuvrDecidedOnD ==
    \A i \in 1..Len(suvr_fpeti) :
        LET f == suvr_fpeti[i]
            k == CHOOSE k \in 1..NSuvr : stat_tdata.suvr[k] = f.src
        IN k # rfrm =>
             ((f.op \in {"com_resample_spm", "com_resample_dipy"})
                 <=> Ds[rfrm][k] > Cnt.reg_thrshld)

\* the frames of the groups align_frames has registered so far are
\* resampled iff the adst metric D of their group exceeds the threshold
FramesDecidedOnD ==
    \A g \in 1..mi : \A j \in 1..Len(mfrms[g]) : \A p \in 1..Len(faligned) :
        faligned[p].src = fniis[mfrms[g][j]] =>
            ((faligned[p].op # "copy") <=> D[g] > Cnt.reg_thrshld)

\* C12: in a call with reg_tool='dipy' and reg_metric='rss' every
\* resample-or-keep decision, for the SUVr frames and for the remaining
\* frames, follows the adst metric D
C12_DipyDecidesOnD ==
    (suvr_tool = "dipy" /\ Cnt.reg_metric = "rss") =>
        SuvrDecidedOnD /\ FramesDecidedOnD

----------------------------------------------------------------------------
(* Properties of the reference frame of align_suvr *)

\* the reference frame has been chosen
RefChosen == pc = "suvr_call"

\* total rss metric of the registrations SUVr frame k takes part in, as
\* the reference or as the floating image
TotalRss(k) == SeqSum([i \in 1..NSuvr |-> Rs[k][i] + Rs[i][k]])

\* C16: the reference frame has the smallest total rss metric, every frame
\* of lower index has a strictly greater one (so the choice is a function
\* of R alone, whatever reg_metric is), and with DIPY, R being all zero,
\* it is the first SUVr frame
C16_ReferenceFrame ==
    RefChosen =>
        /\ rfrm \in 1..NSuvr
        /\ \A k \in 1..NSuvr : TotalRss(rfrm) <= TotalRss(k)
        /\ \A k \in 1..(rfrm - 1) : TotalRss(k) > TotalRss(rfrm)
        /\ (suvr_tool = "dipy") =>
              (rfrm = 1 /\ \A a \in 1..NSuvr : \A b \in 1..NSuvr : Rs[a][b] = 0)

\* C16 witness: three SUVr frames registered with SPM, the last one chosen
\* although reg_metric is 'adst' and the adst totals point to the first
C16_Witness ==
    /\ RefChosen
    /\ NSuvr = 3
    /\ suvr_tool = "spm"
    /\ Cnt.reg_metric = "adst"
    /\ rfrm = 3
    /\ RefFrame(Ds) = 1
    /\ \E k \in 1..2 : RowColSum(Ds, k) < RowColSum(Ds, 3)

----------------------------------------------------------------------------
(* align (lines 363-413) *)

\* id_acq(niidat, acq_type='suvr'): the data of the static series
StaticData(nd) == nd.stat

\* lines 374-402: the static series is identified and given to align_suvr
\* together with align's reg_tool and use_stored
Align_Start ==
    /\ pc = "align_start"
    /\ stat_tdata' = StaticData(niidat)
    /\ pc' = "suvr_config"
    /\ UNCHANGED <<exc, used, Cnt, caller, afvars, suvr_tool, suvr_metric, Rs,
                   Ds, Ss, ci, rfrm, suvr_fpeti, S_w, R_w, D_w, fnii_aligned_w,
                   wfi, fwi, fsi, aligned_suvr, brvars, topvars>>
    /\ UNCHANGED evvars

\* lines 405-413: the result of align_suvr is given to align_break, whose
\* result align returns
Align_CallBreak ==
    /\ pc = "align_break_call"
    /\ pc' = "brk_config"
    /\ UNCHANGED <<exc, used, Cnt, caller, afvars, suvars, brvars, topvars>>
    /\ UNCHANGED evvars

\* the user calls align again on the same input with use_stored=True, the
\* stored result files being those the first call has left
Align_Again ==
    /\ pc = "done"
    /\ entry = "align"
    /\ ncall = 1
    /\ ncall' = 2
    /\ prev' = ret
    /\ ret' = NoRet
    /\ use_stored' = TRUE
    /\ used' = {}
    /\ pc' = "align_start"
    /\ fniis' = <<>>
    /\ times' = [kind |-> "list2d", val |-> <<>>]
    /\ reg_tool' = DefaultRegTool
    /\ save4d' = FALSE
    /\ reg_metric' = Cnt.reg_metric
    /\ mfrms' = <<>> /\ mfrms_out' = <<>> /\ R' = <<>> /\ D' = <<>> /\ S' = <<>>
    /\ faligned' = <<>> /\ fi' = 0 /\ mi' = 0 /\ outdct' = NoOut
    /\ caller' = "top"
    /\ stat_tdata' = [frms |-> <<>>, suvr |-> <<>>, timings |-> <<>>]
    /\ suvr_metric' = Cnt.reg_metric
    /\ Rs' = <<>> /\ Ds' = <<>> /\ Ss' = <<>> /\ ci' = 0 /\ rfrm' = 0
    /\ suvr_fpeti' = <<>> /\ S_w' = <<>> /\ R_w' = <<>> /\ D_w' = <<>>
    /\ fnii_aligned_w' = <<>> /\ wfi' = 0 /\ fwi' = 0 /\ fsi' = 0
    /\ aligned_suvr' = NoSuvr
    /\ decay_corr' = <<>> /\ dcycrr' = One /\ consulted' = {}
    /\ fall' = <<>> /\ niia' = <<>> /\ brk_out' = "none"
    /\ UNCHANGED <<exc, Cnt, suvr_tool, niidat, brk_tool, nanfiles, entry, store>>
    /\ UNCHANGED evvars

\* a result of align_suvr stored by an earlier run
StaleSuvr == AlignedStatic(1)

\* a result of align_break stored by an earlier run
StaleBrk == BrkDict(<<>>, NoOut, AlignedStatic(0))

\* the state on entry to align(niidat, Cnt, reg_tool, use_stored=us)
Align_Entry(nd, cnt, tool, us, st) ==
    /\ pc = "align_start"
    /\ exc = "none"
    /\ used = {}
    /\ caller = "top"
    /\ Cnt = cnt
    /\ fniis = <<>>
    /\ times = [kind |-> "list2d", val |-> <<>>]
    /\ reg_tool = DefaultRegTool
    /\ save4d = FALSE
    /\ reg_metric = cnt.reg_metric
    /\ AF_Locals0
    /\ stat_tdata = [frms |-> <<>>, suvr |-> <<>>, timings |-> <<>>]
    /\ suvr_tool = tool
    /\ suvr_metric = cnt.reg_metric
    /\ Suvr_Locals0
    /\ niidat = nd
    /\ brk_tool = tool
    /\ nanfiles = {}
    /\ Brk_Locals0
    /\ Top0("align", us, st)
    /\ EV_Idle

(* Calls of align on a static series of two SUVr frames, preceded or not  *)
(* by one other frame, with or without a coffee-break series of one       *)
(* frame, with and without stored results of an earlier run.              *)
InitAlign ==
    \E nw \in {0, 1}, hasbrk \in BOOLEAN, us \in BOOLEAN, ss \in BOOLEAN,
       sb \in BOOLEAN, tool \in {"spm", "dipy"}, dc \in BOOLEAN,
       metric \in reg_metric_list \cup {"other"} :
       Align_Entry(
          [descr |-> IF hasbrk
                     THEN <<[acq |-> "break", time |-> 0], [acq |-> "static", time |-> 1]>>
                     ELSE <<[acq |-> "static", time |-> 0]>>,
           tracer |-> "fbb",
           brk |-> IF hasbrk THEN [frms |-> <<1>>, timings |-> <<<<0, 1>>>>]
                   ELSE NoSeries,
           stat |-> [frms |-> [k \in 1..(nw + 2) |-> StatKey(k)],
                     suvr |-> [k \in 1..2 |-> StatKey(nw + k)],
                     timings |-> Layout(0, [k \in 1..(nw + 2) |-> 1])]],
          CntOf(1, 0, metric, dc), tool, us,
          [suvr |-> IF ss THEN StaleSuvr ELSE NoRet,
           brk |-> IF sb THEN StaleBrk ELSE NoRet])

NextAlign ==
    \/ Align_Start \/ Align_CallBreak \/ Align_Again
    \/ Suvr_Config \/ Suvr_Pair \/ Suvr_Reference \/ Suvr_CallFrames
    \/ Suvr_WideInit \/ Suvr_WideStep \/ Suvr_Return \/ Suvr_Load
    \/ AF_Config \/ AF_Times \/ AF_Mash \/ AF_MashFiles \/ AF_Register \/ AF_Return
    \/ Brk_Config \/ Brk_Decay \/ Brk_Load \/ Brk_CallFrames \/ Brk_Assemble

SpecAlign == InitAlign /\ [][NextAlign]_vars

----------------------------------------------------------------------------
(* Properties of align and of the stored results *)

\* align_break is entered with a niidat that describes no coffee-break data
NoBreakEntry == pc = "brk_config" /\ BreakData(niidat) = NoSeries

\* C14: the step align_break takes when no coffee-break data is identified
\* returns the aligned_suvr it was given, unchanged, and invokes no
\* routine, computes no decay factor, reads no start time or tracer and
\* stores nothing; so when align ends on such data what it returns is the
\* result of align_suvr
C14_NoBreakReturnsSuvr ==
    /\ [][NoBreakEntry =>
            /\ pc' = "done"
            /\ ret' = aligned_suvr
            /\ aligned_suvr' = aligned_suvr
            /\ used' = used
            /\ dcycrr' = dcycrr
            /\ consulted' = consulted
            /\ store' = store
            /\ exc' = exc]_vars
    /\ []((entry = "align" /\ pc = "done" /\ BreakData(niidat) = NoSeries)
            => (ret = aligned_suvr /\ ret.set /\ dcycrr = One /\ consulted = {}))

\* C14 witness: align has ended on data without a coffee-break series, with
\* decay correction requested, returning the result align_suvr computed
C14_Witness ==
    /\ entry = "align"
    /\ pc = "done"
    /\ BreakData(niidat) = NoSeries
    /\ Cnt.decay_corr
    /\ ncall = 1
    /\ "np.save" \in used
    /\ ret = aligned_suvr
    /\ ret.set
    /\ Len(ret.suvr.fpeti) = 2

\* align_suvr, called by align, has just returned to align
SuvrEnded == entry = "align" /\ pc = "align_break_call"

\* align_suvr has taken the computing branch of line 513
SuvrComputed == Rs # <<>>

\* align_break has returned
BrkEnded == decay_corr # <<>> /\ pc = "done"

\* routines other than the creation of directories
Worked == used \ {"create_dir"}

\* C13 as stated: every call of align_suvr and of align_break that returns
\* has either found use_stored=True and a stored file and returns the
\* stored dictionary without registration, resampling or writing, or else
\* has recomputed and saved what it returns; and a second call with
\* use_stored=True returns what the first returned
C13_StoredOrRecomputed ==
    /\ SuvrEnded =>
          IF SuvrComputed
          THEN aligned_suvr.set /\ store.suvr = aligned_suvr
          ELSE /\ use_stored /\ aligned_suvr.set /\ aligned_suvr = store.suvr
               /\ Worked = {}
    /\ BrkEnded =>
          IF brk_out = "outdct"
          THEN ret = store.brk
          ELSE /\ brk_out = "stored"
               /\ use_stored /\ ret.set /\ ret = store.brk
               /\ caller # "align_break" /\ niia = <<>>
    /\ (ncall = 2 /\ pc = "done") => ret = prev

\* C13 amended: align_suvr, once reg_metric has passed its check, loads the
\* stored dictionary exactly when use_stored is True and the file is
\* present, and then returns it having invoked nothing but the creation of
\* its folders; align_break, once coffee-break data is identified and the
\* decay step has completed, does the same and then invokes nothing; a
\* call that takes the other branch and returns has saved what it returns;
\* and a second call with use_stored=True returns what the first returned
C13_StoredOrRecomputedAmended ==
    /\ [][(pc = "suvr_config" /\ Cnt.reg_metric \in reg_metric_list) =>
            /\ (pc' = "suvr_load") <=> (use_stored /\ store.suvr.set)
            /\ (pc' = "suvr_core") <=> ~(use_stored /\ store.suvr.set)]_vars
    /\ [][(pc = "suvr_load") =>
            /\ aligned_suvr' = store.suvr /\ aligned_suvr'.set
            /\ used' = used /\ Worked = {} /\ store' = store /\ exc' = exc]_vars
    /\ [][(pc = "brk_call") =>
            IF use_stored /\ store.brk.set
            THEN /\ pc' = "done" /\ ret' = store.brk /\ ret'.set
                 /\ used' = used /\ store' = store /\ exc' = exc
            ELSE pc' = "af_config" /\ caller' = "align_break"]_vars
    /\ []((pc = "align_break_call" /\ SuvrComputed) =>
            (store.suvr = aligned_suvr /\ "np.save" \in used))
    /\ []((pc = "done" /\ brk_out = "outdct") =>
            (ret = store.brk /\ "np.save" \in used))
    /\ []((ncall = 2 /\ pc = "done") => ret = prev)

\* C13 witness: the second call of align, with use_stored=True, has ended
\* after the first call computed and saved both results; it returns the
\* same dictionary and has only created directories
C13_Witness ==
    /\ ncall = 2
    /\ pc = "done"
    /\ brk_out = "stored"
    /\ ret = prev
    /\ ret = store.brk
    /\ ret # StaleBrk
    /\ aligned_suvr = store.suvr
    /\ aligned_suvr # StaleSuvr
    /\ Len(ret.fpeti) = 4
    /\ Worked = {}

----------------------------------------------------------------------------
(* extract_vois (proc.py, lines 103-238) *)

\* the label value that stands for NaN
NaNLabel == 0 - 1

\* the voxels of the images
Voxels == {1, 2}

\* label values of the atlas voxels
LabelValues == {NaNLabel, 1, 2}

\* values of the PET voxels
VoxValues == {1, 2}

\* values of the voxels of an atlas mask
MaskValues == {0, 1}

\* the lists of labels a VOI can have: up to two labels, repeats included
VoiLists ==
    {<<>>} \cup {<<a>> : a \in {0, 1, 2}} \cup {<<a, b>> : a \in {1, 2}, b \in {1, 2}}

\* lbls[np.isnan(lbls)] = 0
NoNaNLabels(a) == [v \in DOMAIN a |-> IF a[v] = NaNLabel THEN 0 ELSE a[v]]

\* sum of f over the set V of voxels
RECURSIVE VoxSum(_, _)
VoxSum(f, V) ==
    IF V = {} THEN 0
    ELSE LET v == CHOOSE v \in V : TRUE IN f[v] + VoxSum(f, V \ {v})

\* bool + bool of numpy: the logical or
BoolAdd(a, b) == a \/ b

\* rmsk after 'rmsk += np.equal(lbls, ri)' for the labels ris[1..n]
RECURSIVE RoiMask(_, _, _)
RoiMask(lb, ris, n) ==
    IF n = 0 THEN [v \in DOMAIN lb |-> FALSE]
    ELSE LET m == RoiMask(lb, ris, n - 1)
         IN [v \in DOMAIN lb |-> BoolAdd(m[v], lb[v] = ris[n])]

\* msk2: rmsk, or rmsk*amsk when an atlas mask is given, as numbers
Mask2(rmsk, am) ==
    [v \in DOMAIN rmsk |->
        (IF rmsk[v] THEN 1 ELSE 0) * (IF am.given THEN am.val[v] ELSE 1)]

\* emsum / vxsum, kept as the pair of its terms
Ratio(a, b) == [num |-> a, den |-> b]

\* the entry of out for a VOI of a 4-D image (lines 220-232)
VoiEntry(im, lb, am, voi) ==
    LET msk2 == Mask2(RoiMask(lb, voi.labels, Len(voi.labels)), am)
        vxsum == VoxSum(msk2, DOMAIN msk2)
        emsum == [f \in 1..Len(im.frames) |->
                    VoxSum([v \in DOMAIN msk2 |-> im.frames[f][v] * msk2[v]], DOMAIN msk2)]
    IN [name |-> voi.name, vox_no |-> vxsum, sum |-> emsum,
        avg |-> [f \in 1..Len(im.frames) |-> Ratio(emsum[f], vxsum)]]

\* lines 122-184: the image, the labels without NaN, the atlas mask
EV_Setup ==
    /\ pc = "ev_setup"
    /\ lbls' = NoNaNLabels(atlas)
    /\ amsk' = atlas_mask
    /\ out' = <<>>
    /\ vk' = 0
    /\ pc' = "ev_loop"
    /\ UNCHANGED <<exc, used, Cnt, caller, afvars, suvars, brvars, topvars,
                   impet, atlas, voi_dct, atlas_mask>>

\* lines 190-236: one iteration of the loop over the VOIs; the image is
\* 4-D, or else the test 'im.ndims==3' is evaluated
EV_Voi ==
    /\ pc = "ev_loop"
    /\ vk < Len(voi_dct)
    /\ IF impet.ndim = 4
       THEN /\ out' = Append(out, VoiEntry(impet, lbls, amsk, voi_dct[vk + 1]))
            /\ vk' = vk + 1
            /\ UNCHANGED <<pc, exc>>
       ELSE /\ Raise("AttributeError: 'numpy.ndarray' object has no attribute 'ndims'")
            /\ UNCHANGED <<out, vk>>
    /\ UNCHANGED <<used, Cnt, caller, afvars, suvars, brvars, topvars,
                   impet, atlas, voi_dct, atlas_mask, lbls, amsk>>

\* line 238: return out
EV_Return ==
    /\ pc = "ev_loop"
    /\ vk = Len(voi_dct)
    /\ pc' = "done"
    /\ UNCHANGED <<exc, used, Cnt, caller, afvars, suvars, brvars, topvars,
                   evvars>>

\* the state on entry to extract_vois(impet, atlas, voi_dct, atlas_mask)
EV_Entry(im, at, vd, am) ==
    /\ pc = "ev_setup"
    /\ exc = "none"
    /\ used = {}
    /\ caller = "top"
    /\ Cnt = CntOf(1, 0, "rss", FALSE)
    /\ fniis = <<>>
    /\ times = [kind |-> "list2d", val |-> <<>>]
    /\ reg_tool = DefaultRegTool
    /\ save4d = FALSE
    /\ reg_metric = "rss"
    /\ AF_Locals0
    /\ Suvr_Idle
    /\ Brk_Idle
    /\ Top0("extract_vois", FALSE, NoStore)
    /\ impet = im
    /\ atlas = at
    /\ voi_dct = vd
    /\ atlas_mask = am
    /\ lbls = <<>>
    /\ amsk = [given |-> FALSE, val |-> <<>>]
    /\ vk = 0
    /\ out = <<>>

\* images of the voxels: a 3-D image is one volume, a 4-D image two frames
Volumes == [Voxels -> VoxValues]

(* Calls of extract_vois on Numpy arrays: a 3-D or 4-D image, any labels, *)
(* one or two VOIs with any lists of labels, with or without atlas mask.  *)
InitVois ==
    \E nd \in {3, 4}, nv \in {1, 2}, given \in BOOLEAN :
       \E f1 \in Volumes, f2 \in Volumes, at \in [Voxels -> LabelValues],
          l1 \in VoiLists, l2 \in VoiLists, mv \in [Voxels -> MaskValues] :
          /\ (nd = 3 => f2 = f1)
          /\ (nv = 1 => l2 = <<>>)
          /\ (~given => mv = [v \in Voxels |-> 1])
          /\ EV_Entry([ndim |-> nd, frames |-> IF nd = 3 THEN <<f1>> ELSE <<f1, f2>>],
                      at,
                      IF nv = 1 THEN <<[name |-> "a", labels |-> l1]>>
                      ELSE <<[name |-> "a", labels |-> l1], [name |-> "b", labels |-> l2]>>,
                      [given |-> given, val |-> mv])

NextVois == EV_Setup \/ EV_Voi \/ EV_Return

SpecVois == InitVois /\ [][NextVois]_vars

----------------------------------------------------------------------------
(* Properties of extract_vois *)

\* the voxels of VOI i: those whose label (NaN being 0) is in its list
VoiVoxels(i) ==
    {v \in Voxels :
        \E j \in 1..Len(voi_dct[i].labels) :
            voi_dct[i].labels[j] = (IF atlas[v] = NaNLabel THEN 0 ELSE atlas[v])}

\* the weight of voxel v in the mask of VOI i
VoiWeight(i, v) ==
    IF v \in VoiVoxels(i) THEN (IF atlas_mask.given THEN atlas_mask.val[v] ELSE 1) ELSE 0

\* the call of extract_vois has ended: it returned or it raised
EV_Ended == entry = "extract_vois" /\ pc \in {"done", "raised"}

\* the statistics of out are those of the VOIs of voi_dct
VoiStatistics ==
    /\ Len(out) = Len(voi_dct)
    /\ \A i \in 1..Len(out) :
          /\ out[i].name = voi_dct[i].name
          /\ out[i].vox_no = VoxSum([v \in Voxels |-> VoiWeight(i, v)], Voxels)
          /\ \A f \in 1..Len(impet.frames) :
                /\ out[i].sum[f] =
                      VoxSum([v \in Voxels |-> impet.frames[f][v] * VoiWeight(i, v)], Voxels)
                /\ out[i].avg[f] = Ratio(out[i].sum[f], out[i].vox_no)

\* C15: when a call of extract_vois has ended, the output has exactly one
\* entry per VOI of voi_dct, in which vox_no is the total of the VOI mask
\* (each voxel whose label is in the VOI's list counted once, times the
\* atlas mask when one is given), sum is the masked image total and avg is
\* sum / vox_no
C15_VoiStatistics == EV_Ended => VoiStatistics

====
